---------------------------- MODULE Spec2Model ----------------------------
(***************************************************************************)
(* arx_test_dir: a reproducible synthetic directory tree, built from one   *)
(* root seed (src/src/random.rs, src/src/tree.rs), then either served as a *)
(* read-only FUSE filesystem (src/src/mount.rs) or written to disk         *)
(* (DirEntry::generate).                                                   *)
(*                                                                         *)
(* Scaling.  The byte-level sizes of the program (8-byte engine words,     *)
(* 32-byte read_to_end probe, 1024-byte BinRead chunk, 8192-byte io::copy  *)
(* buffer, 1024-word text batch) are scaled down, keeping their ratios'    *)
(* one relevant property: every buffer size is a whole number of engine    *)
(* words.  SmallRng is an external engine; it is modelled as a small       *)
(* deterministic generator whose whole state is one integer.               *)
(***************************************************************************)
EXTENDS Integers, Sequences, FiniteSets, TLC

---------------------------------------------------------------------------
(* Bounds of the model *)

\* root seeds tried: 0..MaxSeed
MaxSeed == 1
\* dir_depth ranges end at most here
MaxDepth == 3
\* nb_dir_child ranges end at most here
MaxDirChild == 3
\* nb_file_child ranges end at most here
MaxFileChild == 3
\* file_len ranges end at most here
MaxFileLen == 48
\* bytes per engine word (8 for the 64-bit engine)
WordSize == 2
\* words per text batch (1024 in the source)
BatchWords == 2
\* protocol requests: identifiers 0..MaxReqIno, offsets, lengths, capacities
MaxReqIno == 6
MaxOffset == 3
MaxReadSize == 4
MaxCap == 3
\* calls of one paginated listing
MaxCalls == 6
\* characters of a generated name (7 in the source) and size of the alphabet
NameLen == 1
NbChars == 3
\* resolution of the f32 draw: values k/FloatDen, k in 0..FloatDen-1
FloatDen == 16

---------------------------------------------------------------------------
(* Helpers *)

Min(a, b) == IF a <= b THEN a ELSE b

Max(a, b) == IF a >= b THEN a ELSE b

\* Rust's Range<T>: start..end, empty when start >= end
RangeIsEmpty(r) == r[1] >= r[2]

\* u64::saturating_sub(1)
SaturatingSub1(x) == IF x = 0 THEN 0 ELSE x - 1

RECURSIVE Concat(_)
Concat(ss) == IF ss = <<>> THEN <<>> ELSE Head(ss) \o Concat(Tail(ss))

IsPrefix(s, t) == Len(s) <= Len(t) /\ SubSeq(t, 1, Len(s)) = s

---------------------------------------------------------------------------
(* The engine: SmallRng.  One integer of state, one step per word drawn. *)

\* SmallRng::seed_from_u64
SeedFromU64(seed) == (seed * 23 + 6) % 61

\* one step of the engine (next_u64)
RngStep(s) == (s * 17 + 11) % 61

\* the word the engine yields when it steps from s
RngOut(s) == RngStep(s)

\* Rng::gen_range(start..end) on a non-empty range: the value drawn
GenRange(s, r) == r[1] + (RngOut(s) % (r[2] - r[1]))

\* Rng::gen::<f32>(), a value of [0, 1), in units of 1/FloatDen
GenFloat(s) == RngOut(s) % FloatDen

\* byte j (0-based) of the word the engine yields from state s
WordByte(s, j) == (RngOut(s) * WordSize + j) % 256

\* next_u32 is the upper half of next_u64
HalfWord == WordSize \div 2

\* RngCore::fill_bytes(dest) with |dest| = n: whole words, then one more
\* step for a tail whose unused bytes are dropped; a tail of at most half
\* a word is cut from next_u32
RECURSIVE FillBytes(_, _)
FillBytes(s, n) ==
    IF n = 0 THEN [bytes |-> <<>>, rng |-> s]
    ELSE IF n >= WordSize
    THEN LET rest == FillBytes(RngStep(s), n - WordSize)
         IN  [bytes |-> [j \in 1 .. WordSize |-> WordByte(s, j - 1)] \o rest.bytes,
              rng |-> rest.rng]
    ELSE IF n > HalfWord
    THEN [bytes |-> [j \in 1 .. n |-> WordByte(s, j - 1)], rng |-> RngStep(s)]
    ELSE [bytes |-> [j \in 1 .. n |-> WordByte(s, HalfWord + j - 1)],
          rng |-> RngStep(s)]

\* one lorem word: one step of the engine, one or two letters
LipsumWord(s) ==
    LET c == 97 + (RngOut(s) % 26)
    IN  IF (RngOut(s) \div 26) % 2 = 0 THEN <<c>> ELSE <<c, c>>

\* lipsum::lipsum_words_with_rng(rng, n): n words separated by a space,
\* closed by a full stop
RECURSIVE LipsumWords(_, _)
LipsumWords(s, n) ==
    IF n = 0 THEN [bytes |-> <<>>, rng |-> s]
    ELSE LET rest == LipsumWords(RngStep(s), n - 1)
         IN  [bytes |-> LipsumWord(s) \o (IF n = 1 THEN <<46>> ELSE <<32>>) \o rest.bytes,
              rng |-> rest.rng]

\* rng.sample(Alphanumeric): one character of the alphabet
SampleChar(s) == 97 + (RngOut(s) % NbChars)

\* name(rng): NameLen characters drawn one after the other
RECURSIVE NameChars(_, _)
NameChars(s, n) ==
    IF n = 0 THEN [name |-> <<>>, rng |-> s]
    ELSE LET rest == NameChars(RngStep(s), n - 1)
         IN  [name |-> <<SampleChar(s)>> \o rest.name, rng |-> rest.rng]

Name(s) == NameChars(s, NameLen)

\* PathBuf::set_extension("bin") / ("text") on a name without a dot
ExtBin == <<46, 98, 105, 110>>
ExtText == <<46, 116, 101, 120, 116>>
SetExtension(name, ext) == name \o ext

---------------------------------------------------------------------------
(* Content streams: BinRead, TextRead, Take, io::copy, read_to_end *)

\* buffer sizes, in engine words
ProbeSize == 2 * WordSize
ChunkSize == 2 * ProbeSize
CopyBufSize == 2 * ChunkSize
VecMinCap == WordSize

NoTake == 0 - 1

\* BinRead::new(seed) / TextRead::new(seed) behind .take(size): limit is the
\* remaining count of Take(size); outer is a second Take put around it
\* (NoTake: none)
NewReader(is_binary, seed, size) ==
    [is_binary |-> is_binary, rng |-> SeedFromU64(seed), cache |-> <<>>,
     limit |-> size, outer |-> NoTake]

\* a BinRead whose chunk is one byte short of a whole number of words
BinReadReadOddChunk(r, n) ==
    LET to_read_len == Min(n, ChunkSize - 1)
        f == FillBytes(r.rng, to_read_len)
    IN  [bytes |-> f.bytes, reader |-> [r EXCEPT !.rng = f.rng]]

\* <BinRead as Read>::read with a buffer of n bytes
BinReadRead(r, n) ==
    LET to_read_len == Min(n, ChunkSize)
        f == FillBytes(r.rng, to_read_len)
    IN  [bytes |-> f.bytes, reader |-> [r EXCEPT !.rng = f.rng]]

\* <TextRead as Read>::read with a buffer of n bytes
TextReadRead(r, n) ==
    LET gen == LipsumWords(r.rng, BatchWords)
        refill == r.cache = <<>>
        cache == IF refill THEN gen.bytes ELSE r.cache
        rng == IF refill THEN gen.rng ELSE r.rng
        source_len == Min(n, Len(cache))
    IN  [bytes |-> SubSeq(cache, 1, source_len),
         reader |-> [r EXCEPT !.rng = rng,
                              !.cache = SubSeq(cache, source_len + 1, Len(cache))]]

\* <Take<T> as Read>::read of the reader built by get_reader
TakeRead(r, n) ==
    IF r.limit = 0 THEN [bytes |-> <<>>, reader |-> r]
    ELSE LET max == Min(n, r.limit)
             got == IF r.is_binary THEN BinReadRead(r, max) ELSE TextReadRead(r, max)
         IN  [bytes |-> got.bytes,
              reader |-> [got.reader EXCEPT !.limit = r.limit - Len(got.bytes)]]

\* one read of n bytes through the outer Take, when there is one
ReaderRead(r, n) ==
    IF r.outer = NoTake THEN TakeRead(r, n)
    ELSE IF r.outer = 0 THEN [bytes |-> <<>>, reader |-> r]
    ELSE LET got == TakeRead(r, Min(n, r.outer))
         IN  [bytes |-> got.bytes,
              reader |-> [got.reader EXCEPT !.outer = r.outer - Len(got.bytes)]]

\* Read::take(limit) and Take::into_inner
Take(r, limit) == [r EXCEPT !.outer = limit]
IntoInner(r) == [r EXCEPT !.outer = NoTake]

\* std::io::copy(reader, writer): reads of CopyBufSize bytes until one
\* returns nothing; bytes is what the writer receives
RECURSIVE IoCopy(_)
IoCopy(r) ==
    LET got == ReaderRead(r, CopyBufSize)
    IN  IF got.bytes = <<>> THEN [bytes |-> <<>>, reader |-> got.reader]
        ELSE LET rest == IoCopy(got.reader)
             IN  [bytes |-> got.bytes \o rest.bytes, reader |-> rest.reader]

\* the loop of Read::read_to_end on a Vec of length len and capacity cap:
\* grow by at least ProbeSize when full, read into the spare capacity
RECURSIVE ReadToEndLoop(_, _, _)
ReadToEndLoop(r, len, cap) ==
    LET cap2 == IF len = cap THEN Max(2 * cap, len + ProbeSize) ELSE cap
        buf_len == Min(cap2 - len, CopyBufSize)
        got == ReaderRead(r, buf_len)
    IN  IF got.bytes = <<>> THEN [bytes |-> <<>>, reader |-> got.reader]
        ELSE LET rest == ReadToEndLoop(got.reader, len + Len(got.bytes), cap2)
             IN  [bytes |-> got.bytes \o rest.bytes, reader |-> rest.reader]

\* Read::read_to_end(&mut Vec::new()): a first probe of ProbeSize bytes,
\* then the loop
ReadToEnd(r) ==
    LET probe == ReaderRead(r, ProbeSize)
        n == Len(probe.bytes)
    IN  IF n = 0 THEN [bytes |-> <<>>, reader |-> probe.reader]
        ELSE LET rest == ReadToEndLoop(probe.reader, n, Max(VecMinCap, n))
             IN  [bytes |-> probe.bytes \o rest.bytes, reader |-> rest.reader]

---------------------------------------------------------------------------
(* Generation context (src/src/random.rs) *)

\* a draw that found its range empty panics (rand: "cannot sample empty
\* range"); ok = FALSE then, with the draws made before it

\* an nb_child that draws the directory count whatever the depth draw gave
ContextNbChildAnyDepth(ctx, s) ==
    IF \/ RangeIsEmpty(ctx.nb_file_child)
       \/ RangeIsEmpty(ctx.dir_depth)
       \/ RangeIsEmpty(ctx.nb_dir_child)
    THEN [ok |-> FALSE, nb_files |-> 0, nb_dir |-> 0, rng |-> s, draws |-> <<>>]
    ELSE [ok |-> TRUE, nb_files |-> GenRange(s, ctx.nb_file_child),
          nb_dir |-> GenRange(RngStep(RngStep(s)), ctx.nb_dir_child),
          rng |-> RngStep(RngStep(RngStep(s))),
          draws |-> <<"nb_files", "depth", "nb_dir">>]

\* Context::nb_child
ContextNbChild(ctx, s) ==
    IF RangeIsEmpty(ctx.nb_file_child)
    THEN [ok |-> FALSE, nb_files |-> 0, nb_dir |-> 0, rng |-> s, draws |-> <<>>]
    ELSE LET nb_files == GenRange(s, ctx.nb_file_child)
             s1 == RngStep(s)
         IN  IF RangeIsEmpty(ctx.dir_depth)
             THEN [ok |-> FALSE, nb_files |-> nb_files, nb_dir |-> 0, rng |-> s1,
                   draws |-> <<"nb_files">>]
             ELSE LET can_contains_dir == GenRange(s1, ctx.dir_depth)
                      s2 == RngStep(s1)
                  IN  IF can_contains_dir > 0
                      THEN IF RangeIsEmpty(ctx.nb_dir_child)
                           THEN [ok |-> FALSE, nb_files |-> nb_files, nb_dir |-> 0,
                                 rng |-> s2, draws |-> <<"nb_files", "depth">>]
                           ELSE [ok |-> TRUE, nb_files |-> nb_files,
                                 nb_dir |-> GenRange(s2, ctx.nb_dir_child),
                                 rng |-> RngStep(s2),
                                 draws |-> <<"nb_files", "depth", "nb_dir">>]
                      ELSE [ok |-> TRUE, nb_files |-> nb_files, nb_dir |-> 0,
                            rng |-> s2, draws |-> <<"nb_files", "depth">>]

\* Context::is_binary
ContextIsBinary(ctx, s) == GenFloat(s) <= ctx.binary_ratio

\* Context::file_len, on a non-empty range
ContextFileLen(ctx, s) == GenRange(s, ctx.file_len)

\* a text_len that keeps the drawn length as it is
ContextTextLenNoShift(ctx, s) == GenRange(s, ctx.file_len)

\* Context::text_len, on a non-empty range: the drawn length >> 3
ContextTextLen(ctx, s) == GenRange(s, ctx.file_len) \div 8

\* Context::get::<u64>
ContextGet(s) == RngOut(s)

\* a descent that lowers both ends of dir_depth by two
ContextDescentByTwo(ctx) ==
    [ctx EXCEPT !.dir_depth = <<SaturatingSub1(SaturatingSub1(ctx.dir_depth[1])),
                                SaturatingSub1(SaturatingSub1(ctx.dir_depth[2]))>>]

\* Context::descent
ContextDescent(ctx) ==
    [ctx EXCEPT !.dir_depth = <<SaturatingSub1(ctx.dir_depth[1]),
                                SaturatingSub1(ctx.dir_depth[2])>>]

---------------------------------------------------------------------------
(* State *)

VARIABLES
    cfg,        \* the ContextBuilder's fields: seed, ranges, binary_ratio
    pc,         \* "config", "created", "building", "built", "panic"
    rng,        \* the engine shared by every Context of one build
    stack,      \* the calls of DirEntry::new in progress, innermost last
    root,       \* the tree DirEntry::new_root returned (NoTree before)
    log,        \* the draws of the current build, in the order made
    builds,     \* how many builds have been started
    first_root, \* the tree of the first build
    srv,        \* "down", "serving", "panicked": the FUSE session
    req,        \* the last protocol request
    reply,      \* its reply
    trav,       \* a paginated read_directory traversal in progress
    disk        \* what DirEntry::generate wrote

vars == <<cfg, pc, rng, stack, root, log, builds, first_root, srv, req, reply,
          trav, disk>>

NoTree == [name |-> <<>>, ino |-> 0, parent_ino |-> 0, files |-> <<>>, dirs |-> <<>>]

NoReq == [op |-> "none", ino |-> 0, name |-> <<>>, offset |-> 0, size |-> 0, cap |-> 0]

NoReply == [kind |-> "none", errno |-> "", ino |-> 0, size |-> 0, ftype |-> "",
            data |-> <<>>, entries |-> <<>>]

NoTrav == [active |-> FALSE, ino |-> 0, cap |-> 0, calls |-> 0, emitted |-> <<>>,
           done |-> FALSE]

NoDisk == [made |-> FALSE, err |-> FALSE, entries |-> <<>>]

\* ranges offered to the builder, valid ones and one invalid one each
DirDepthRanges == {<<0, 1>>, <<0, MaxDepth - 1>>, <<1, MaxDepth>>, <<1, 1>>}
NbDirChildRanges == {<<0, MaxDirChild>>, <<1, MaxDirChild>>, <<2, 2>>}
NbFileChildRanges == {<<0, MaxFileChild>>, <<1, MaxFileChild>>, <<2, 1>>}
FileLenRanges == {<<4, MaxFileLen>>, <<3, 3>>}
BinaryRatios == {0, FloatDen \div 2, FloatDen}

\* a builder set to seed 0, dir_depth 0..1, nb_dir_child 0..1,
\* nb_file_child 2..3, binary_ratio 0.0 and file_len 10..11
Scenario ==
    [seed |-> 0, dir_depth |-> <<0, 1>>, nb_dir_child |-> <<0, 1>>,
     nb_file_child |-> <<2, 3>>, binary_ratio |-> 0, file_len |-> <<10, 11>>]

\* the same ranges under every seed offered
Scenarios == {[Scenario EXCEPT !.seed = s] : s \in 0 .. MaxSeed}

Configs ==
    [seed : 0 .. MaxSeed, dir_depth : DirDepthRanges,
     nb_dir_child : NbDirChildRanges, nb_file_child : NbFileChildRanges,
     binary_ratio : BinaryRatios, file_len : FileLenRanges]
    \cup Scenarios

Init ==
    /\ cfg \in Configs
    /\ pc = "config"
    /\ rng = 0
    /\ stack = <<>>
    /\ root = NoTree
    /\ log = <<>>
    /\ builds = 0
    /\ first_root = NoTree
    /\ srv = "down"
    /\ req = NoReq
    /\ reply = NoReply
    /\ trav = NoTrav
    /\ disk = NoDisk

---------------------------------------------------------------------------
(* Build (src/src/tree.rs, DirEntry::new) *)

\* ContextBuilder::create: the Context's ranges and ratio
CreateContext(c) ==
    [dir_depth |-> c.dir_depth, nb_dir_child |-> c.nb_dir_child,
     nb_file_child |-> c.nb_file_child, binary_ratio |-> c.binary_ratio,
     file_len |-> c.file_len]

\* a create() that keeps the engine where the last build left it
CreateRngStale(c) == rng

\* ContextBuilder::create: the engine
CreateRng(c) == SeedFromU64(c.seed)

\* the local state of one call DirEntry::new(name, ino, parent_ino, context)
Frame(name, ino, parent_ino, ctx) ==
    [name |-> name, ino |-> ino, parent_ino |-> parent_ino, ctx |-> ctx,
     stage |-> "start", nb_files |-> 0, nb_dir |-> 0, current_ino |-> ino,
     dirs |-> <<>>, files |-> <<>>]

Draw(node, what, at) == [node |-> node, what |-> what, at |-> at]

\* FileEntry::new
FileEntryNew(name, ino, parent_ino, seed, is_binary, size) ==
    [name |-> name, ino |-> ino, parent_ino |-> parent_ino, seed |-> seed,
     is_binary |-> is_binary, size |-> size]

\* a files closure that draws the length before the seed
NewFileChildLenFirst(ctx, s, current_ino, ino) ==
    LET child_name == Name(s)
        s1 == child_name.rng
        is_binary == ContextIsBinary(ctx, s1)
        s2 == RngStep(s1)
        s3 == RngStep(s2)
        seed == ContextGet(s3)
        before == <<Draw(current_ino, "name", s), Draw(current_ino, "kind", s1)>>
    IN  IF RangeIsEmpty(ctx.file_len)
        THEN [ok |-> FALSE, rng |-> s2, draws |-> before,
              file |-> FileEntryNew(<<>>, 0, 0, 0, FALSE, 0)]
        ELSE [ok |-> TRUE, rng |-> RngStep(s3),
              draws |-> before \o <<Draw(current_ino, "len", s2),
                                    Draw(current_ino, "seed", s3)>>,
              file |-> FileEntryNew(
                  SetExtension(child_name.name, IF is_binary THEN ExtBin ELSE ExtText),
                  current_ino, ino, seed, is_binary,
                  IF is_binary THEN ContextFileLen(ctx, s2)
                  ELSE ContextTextLen(ctx, s2))]

\* the closure that builds one file child: name, kind, then the arguments of
\* FileEntry::new from left to right, so the seed before the length
NewFileChild(ctx, s, current_ino, ino) ==
    LET child_name == Name(s)
        s1 == child_name.rng
        is_binary == ContextIsBinary(ctx, s1)
        s2 == RngStep(s1)
        seed == ContextGet(s2)
        s3 == RngStep(s2)
        before == <<Draw(current_ino, "name", s), Draw(current_ino, "kind", s1),
                    Draw(current_ino, "seed", s2)>>
    IN  IF RangeIsEmpty(ctx.file_len)
        THEN [ok |-> FALSE, rng |-> s3, draws |-> before,
              file |-> FileEntryNew(<<>>, 0, 0, 0, FALSE, 0)]
        ELSE [ok |-> TRUE, rng |-> RngStep(s3),
              draws |-> Append(before, Draw(current_ino, "len", s3)),
              file |-> FileEntryNew(
                  SetExtension(child_name.name, IF is_binary THEN ExtBin ELSE ExtText),
                  current_ino, ino, seed, is_binary,
                  IF is_binary THEN ContextFileLen(ctx, s3)
                  ELSE ContextTextLen(ctx, s3))]

\* a files closure that steps the identifier by two
NextFileInoSkip(current_ino) == current_ino + 2

\* the identifier a file child takes: current_ino += 1
NextFileIno(current_ino) == current_ino + 1

\* the identifier a directory child starts from: current_ino + 1
NextDirIno(current_ino) == current_ino + 1

\* a dirs closure that drops the identifier its child returned
AfterDirChildStale(current_ino, last_ino) == current_ino

\* current_ino after a directory child returned last_ino
AfterDirChild(current_ino, last_ino) == last_ino

Top == stack[Len(stack)]

SetTop(f) == [stack EXCEPT ![Len(stack)] = f]

RECURSIVE DrawsAt(_, _, _)
DrawsAt(node, whats, s) ==
    IF whats = <<>> THEN <<>>
    ELSE <<Draw(node, Head(whats), s)>> \o DrawsAt(node, Tail(whats), RngStep(s))

\* builder.create()
Create ==
    /\ pc = "config"
    /\ pc' = "created"
    /\ rng' = CreateRng(cfg)
    /\ builds' = builds + 1
    /\ log' = <<>>
    /\ UNCHANGED <<cfg, stack, root, first_root, srv, req, reply, trav, disk>>

\* DirEntry::new_root(context): the call DirEntry::new("", 1, 1, context)
NewRoot ==
    /\ pc = "created"
    /\ pc' = "building"
    /\ stack' = <<Frame(<<>>, 1, 1, CreateContext(cfg))>>
    /\ UNCHANGED <<cfg, rng, root, log, builds, first_root, srv, req, reply, trav, disk>>

\* let (nb_files, nb_dir) = context.nb_child();
NbChild ==
    /\ pc = "building"
    /\ Top.stage = "start"
    /\ LET n == ContextNbChild(Top.ctx, rng)
       IN  /\ rng' = n.rng
           /\ log' = log \o DrawsAt(Top.ino, n.draws, rng)
           /\ IF n.ok
              THEN /\ stack' = SetTop([Top EXCEPT !.stage = "children",
                                                  !.nb_files = n.nb_files,
                                                  !.nb_dir = n.nb_dir])
                   /\ pc' = pc
              ELSE /\ pc' = "panic"
                   /\ stack' = stack
    /\ UNCHANGED <<cfg, root, builds, first_root, srv, req, reply, trav, disk>>

\* one turn of the dirs closure, up to the recursive call
DirChild ==
    /\ pc = "building"
    /\ Top.stage = "children"
    /\ Len(Top.dirs) < Top.nb_dir
    /\ LET child_name == Name(rng)
           child_ino == NextDirIno(Top.current_ino)
       IN  /\ rng' = child_name.rng
           /\ log' = Append(log, Draw(child_ino, "name", rng))
           /\ stack' = Append(stack, Frame(child_name.name, child_ino, Top.ino,
                                           ContextDescent(Top.ctx)))
    /\ UNCHANGED <<cfg, pc, root, builds, first_root, srv, req, reply, trav, disk>>

\* one turn of the files closure
FileChild ==
    /\ pc = "building"
    /\ Top.stage = "children"
    /\ Len(Top.dirs) = Top.nb_dir
    /\ Len(Top.files) < Top.nb_files
    /\ LET current_ino == NextFileIno(Top.current_ino)
           f == NewFileChild(Top.ctx, rng, current_ino, Top.ino)
       IN  /\ rng' = f.rng
           /\ log' = log \o f.draws
           /\ IF f.ok
              THEN /\ stack' = SetTop([Top EXCEPT !.current_ino = current_ino,
                                                  !.files = Append(Top.files, f.file)])
                   /\ pc' = pc
              ELSE /\ pc' = "panic"
                   /\ stack' = stack
    /\ UNCHANGED <<cfg, root, builds, first_root, srv, req, reply, trav, disk>>

\* the return of DirEntry::new: (current_ino, Self {..}); the caller is the
\* dirs closure of the parent, or new_root
Return ==
    /\ pc = "building"
    /\ Top.stage = "children"
    /\ Len(Top.dirs) = Top.nb_dir
    /\ Len(Top.files) = Top.nb_files
    /\ LET d == [name |-> Top.name, ino |-> Top.ino, parent_ino |-> Top.parent_ino,
                 files |-> Top.files, dirs |-> Top.dirs]
           last_ino == Top.current_ino
       IN  IF Len(stack) = 1
           THEN /\ root' = d
                /\ first_root' = IF builds = 1 THEN d ELSE first_root
                /\ pc' = "built"
                /\ stack' = <<>>
           ELSE LET caller == stack[Len(stack) - 1]
                    rest == SubSeq(stack, 1, Len(stack) - 2)
                IN  /\ stack' = Append(rest,
                            [caller EXCEPT
                                !.current_ino = AfterDirChild(caller.current_ino, last_ino),
                                !.dirs = Append(caller.dirs, d)])
                    /\ UNCHANGED <<root, first_root, pc>>
    /\ UNCHANGED <<cfg, rng, log, builds, srv, req, reply, trav, disk>>

\* the same configuration is built again, in a fresh process
Rebuild ==
    /\ pc = "built"
    /\ srv = "down"
    /\ disk = NoDisk
    /\ builds = 1
    /\ pc' = "config"
    /\ root' = NoTree
    /\ UNCHANGED <<cfg, rng, stack, log, builds, first_root, srv, req, reply, trav, disk>>

---------------------------------------------------------------------------
(* Tree queries (src/src/tree.rs) *)

NoFile == FileEntryNew(<<>>, 0, 0, 0, FALSE, 0)

\* Result<EntryRef, NoEntry>
NoEntry == [ok |-> FALSE, is_dir |-> FALSE, file |-> NoFile, dir |-> NoTree]
RefFile(f) == [ok |-> TRUE, is_dir |-> FALSE, file |-> f, dir |-> NoTree]
RefDir(d) == [ok |-> TRUE, is_dir |-> TRUE, file |-> NoFile, dir |-> d]

\* FileEntry::get_entry
FileGetEntry(f, ino) == IF ino = f.ino THEN RefFile(f) ELSE NoEntry

\* the loop over self.files in DirEntry::get_entry
RECURSIVE FilesGetEntry(_, _)
FilesGetEntry(files, ino) ==
    IF files = <<>> THEN NoEntry
    ELSE IF FileGetEntry(Head(files), ino).ok THEN FileGetEntry(Head(files), ino)
    ELSE FilesGetEntry(Tail(files), ino)

\* DirEntry::get_entry, and its loop over self.dirs
RECURSIVE DirGetEntry(_, _), DirsGetEntry(_, _)
DirGetEntry(d, ino) ==
    IF ino = d.ino THEN RefDir(d)
    ELSE IF FilesGetEntry(d.files, ino).ok THEN FilesGetEntry(d.files, ino)
    ELSE DirsGetEntry(d.dirs, ino)

DirsGetEntry(dirs, ino) ==
    IF dirs = <<>> THEN NoEntry
    ELSE IF DirGetEntry(Head(dirs), ino).ok THEN DirGetEntry(Head(dirs), ino)
    ELSE DirsGetEntry(Tail(dirs), ino)

\* the first element of a sequence of entries that carries the name
RECURSIVE FirstNamed(_, _)
FirstNamed(es, name) ==
    IF es = <<>> THEN 0
    ELSE IF Head(es).name = name THEN 1
    ELSE IF FirstNamed(Tail(es), name) = 0 THEN 0
    ELSE 1 + FirstNamed(Tail(es), name)

\* DirEntry::get_child
DirGetChild(d, name) ==
    IF FirstNamed(d.files, name) > 0 THEN RefFile(d.files[FirstNamed(d.files, name)])
    ELSE IF FirstNamed(d.dirs, name) > 0 THEN RefDir(d.dirs[FirstNamed(d.dirs, name)])
    ELSE NoEntry

\* DirEntry::get_child_idx, idx a usize
DirGetChildIdx(d, idx) ==
    IF idx < Len(d.files) THEN RefFile(d.files[idx + 1])
    ELSE IF idx - Len(d.files) < Len(d.dirs)
    THEN RefDir(d.dirs[idx - Len(d.files) + 1])
    ELSE NoEntry

\* DirEntry::get_nb_children
DirGetNbChildren(d) == Len(d.files) + Len(d.dirs)

\* FileEntry::get_attr and DirEntry::get_attr: the fields that vary
FileGetAttr(f) == [ino |-> f.ino, size |-> f.size, kind |-> "RegularFile"]
DirGetAttr(d) == [ino |-> d.ino, size |-> 0, kind |-> "Directory"]

\* FileEntry::get_reader
GetReader(f) == NewReader(f.is_binary, f.seed, f.size)

---------------------------------------------------------------------------
(* The protocol adapter (src/src/mount.rs).  A handler that panics sends   *)
(* no reply: kind "panic".                                                 *)

ErrorReply(errno) == [NoReply EXCEPT !.kind = "error", !.errno = errno]
PanicReply == [NoReply EXCEPT !.kind = "panic"]
AttrReply(kind, a) == [NoReply EXCEPT !.kind = kind, !.ino = a.ino, !.size = a.size,
                                      !.ftype = a.kind]

\* TreeFs::lookup
LookupReply(tree, parent, name) ==
    LET entry == DirGetEntry(tree, parent)
    IN  IF ~entry.ok THEN ErrorReply("ENOENT")
        ELSE IF ~entry.is_dir THEN ErrorReply("ENOENT")
        ELSE LET child == DirGetChild(entry.dir, name)
             IN  IF ~child.ok THEN ErrorReply("ENOENT")
                 ELSE IF child.is_dir THEN AttrReply("entry", DirGetAttr(child.dir))
                 ELSE AttrReply("entry", FileGetAttr(child.file))

\* TreeFs::getattr
GetattrReply(tree, ino) ==
    LET entry == DirGetEntry(tree, ino)
    IN  IF ~entry.ok THEN PanicReply
        ELSE IF entry.is_dir THEN AttrReply("attr", DirGetAttr(entry.dir))
        ELSE AttrReply("attr", FileGetAttr(entry.file))

\* TreeFs::open
OpenReply(tree, ino) ==
    LET entry == DirGetEntry(tree, ino)
    IN  IF ~entry.ok THEN PanicReply
        ELSE IF entry.is_dir THEN ErrorReply("EISDIR")
        ELSE [NoReply EXCEPT !.kind = "opened"]

\* an opendir that answers a file with the error of open
OpendirReplyIsDir(tree, ino) ==
    LET entry == DirGetEntry(tree, ino)
    IN  IF ~entry.ok THEN PanicReply
        ELSE IF entry.is_dir THEN [NoReply EXCEPT !.kind = "opened"]
        ELSE ErrorReply("EISDIR")

\* TreeFs::opendir
OpendirReply(tree, ino) ==
    LET entry == DirGetEntry(tree, ino)
    IN  IF ~entry.ok THEN PanicReply
        ELSE IF entry.is_dir THEN [NoReply EXCEPT !.kind = "opened"]
        ELSE ErrorReply("ENOTDIR")

\* a read that skips on one reader and reads from a fresh one
ReadDataFreshReader(f, offset, size) ==
    LET skipped == IoCopy(Take(GetReader(f), offset))
    IN  ReadToEnd(Take(GetReader(f), size)).bytes

\* the File arm of TreeFs::read: skip offset bytes, then read size bytes
ReadData(f, offset, size) ==
    LET reader == GetReader(f)
        skip_reader == Take(reader, offset)
        skipped == IoCopy(skip_reader)
        reader2 == Take(IntoInner(skipped.reader), size)
    IN  ReadToEnd(reader2).bytes

\* TreeFs::read, offset >= 0
ReadReply(tree, ino, offset, size) ==
    LET entry == DirGetEntry(tree, ino)
    IN  IF ~entry.ok THEN PanicReply
        ELSE IF entry.is_dir THEN ErrorReply("EISDIR")
        ELSE [NoReply EXCEPT !.kind = "data", !.data = ReadData(entry.file, offset, size)]

DirEnt(ino, offset, kind, name) ==
    [ino |-> ino, offset |-> offset, kind |-> kind, name |-> name]

\* the offset TreeFs::readdir starts its loop from
ReaddirStart(offset) == IF offset = 0 THEN 0 ELSE offset + 1

\* the loop of TreeFs::readdir from index i: reply.add answers "full" when
\* the buffer cannot take the entry, which is then not added
RECURSIVE ReaddirLoop(_, _, _, _)
ReaddirLoop(d, i, entries, cap) ==
    IF i >= DirGetNbChildren(d) + 2 THEN [ok |-> TRUE, entries |-> entries]
    ELSE LET child == DirGetChildIdx(d, i - 2)
             e == IF i = 0 THEN DirEnt(d.ino, i, "Directory", <<46>>)
                  ELSE IF i = 1 THEN DirEnt(d.parent_ino, i, "Directory", <<46, 46>>)
                  ELSE IF child.is_dir
                  THEN DirEnt(child.dir.ino, i, "Directory", child.dir.name)
                  ELSE DirEnt(child.file.ino, i, "RegularFile", child.file.name)
         IN  IF i >= 2 /\ ~child.ok THEN [ok |-> FALSE, entries |-> entries]
             ELSE IF Len(entries) >= cap THEN [ok |-> TRUE, entries |-> entries]
             ELSE ReaddirLoop(d, i + 1, Append(entries, e), cap)

\* TreeFs::readdir, offset >= 0, with a reply buffer that holds cap entries
ReaddirReply(tree, ino, offset, cap) ==
    LET entry == DirGetEntry(tree, ino)
    IN  IF ~entry.ok THEN PanicReply
        ELSE IF ~entry.is_dir THEN ErrorReply("ENOTDIR")
        ELSE LET r == ReaddirLoop(entry.dir, ReaddirStart(offset), <<>>, cap)
             IN  IF r.ok THEN [NoReply EXCEPT !.kind = "dir", !.entries = r.entries]
                 ELSE PanicReply

---------------------------------------------------------------------------
(* Walks of a built tree *)

\* every directory of the tree, the tree's own first
RECURSIVE DirsOf(_)
DirsOf(d) == <<d>> \o Concat([i \in 1 .. Len(d.dirs) |-> DirsOf(d.dirs[i])])

\* every file of the tree
FilesOf(d) == LET ds == DirsOf(d) IN Concat([i \in 1 .. Len(ds) |-> ds[i].files])

Range(s) == {s[i] : i \in 1 .. Len(s)}

---------------------------------------------------------------------------
(* Materialization (src/src/tree.rs, generate) *)

Exists(dk, path) == \E i \in 1 .. Len(dk.entries) : dk.entries[i].path = path

\* Path::join: joining the empty name leaves the directory
Join(dir, name) == IF name = <<>> THEN dir ELSE Append(dir, name)

\* FileEntry::generate: create_new fails on an existing path
FileGenerate(f, dir, dk) ==
    LET path == Join(dir, f.name)
    IN  IF dk.err THEN dk
        ELSE IF Exists(dk, path) THEN [dk EXCEPT !.err = TRUE]
        ELSE [dk EXCEPT !.entries = Append(@,
                 [path |-> path, is_dir |-> FALSE, ino |-> f.ino,
                  data |-> IoCopy(GetReader(f)).bytes])]

RECURSIVE FilesGenerate(_, _, _)
FilesGenerate(files, dir, dk) ==
    IF files = <<>> \/ dk.err THEN dk
    ELSE FilesGenerate(Tail(files), dir, FileGenerate(Head(files), dir, dk))

\* DirEntry::generate: create_dir fails on an existing path; subdirectories,
\* then files; the first error ends the walk
RECURSIVE DirGenerate(_, _, _), DirsGenerate(_, _, _)
DirGenerate(d, dir, dk) ==
    LET path == Join(dir, d.name)
    IN  IF dk.err THEN dk
        ELSE IF Exists(dk, path) THEN [dk EXCEPT !.err = TRUE]
        ELSE FilesGenerate(d.files, path,
                 DirsGenerate(d.dirs, path,
                     [dk EXCEPT !.entries = Append(@,
                         [path |-> path, is_dir |-> TRUE, ino |-> d.ino,
                          data |-> <<>>])]))

DirsGenerate(dirs, dir, dk) ==
    IF dirs = <<>> \/ dk.err THEN dk
    ELSE DirsGenerate(Tail(dirs), dir, DirGenerate(Head(dirs), dir, dk))

\* root.generate(out_dir), out_dir not existing yet
Generate ==
    /\ pc = "built"
    /\ srv = "down"
    /\ ~disk.made
    /\ disk' = DirGenerate(root, <<>>, [NoDisk EXCEPT !.made = TRUE])
    /\ UNCHANGED <<cfg, pc, rng, stack, root, log, builds, first_root, srv, req,
                   reply, trav>>

---------------------------------------------------------------------------
(* Serving *)

ReqInos == 0 .. MaxReqIno

\* the names a client asks for: those of the tree, and one that is absent
LookupNames ==
    LET ds == DirsOf(root)
        fs == FilesOf(root)
    IN  {ds[i].name : i \in 1 .. Len(ds)} \cup {fs[i].name : i \in 1 .. Len(fs)}
            \cup {<<48>>}

ReadOffsets == 0 .. MaxOffset \cup {ChunkSize + 1}

Idle == srv = "serving" /\ req = NoReq

\* the request is answered, or the handler panics and takes the session down
Answer(r, rep) ==
    /\ req' = r
    /\ reply' = rep
    /\ srv' = IF rep.kind = "panic" THEN "panicked" ELSE srv
    /\ UNCHANGED <<cfg, pc, rng, stack, root, log, builds, first_root, disk>>

\* TreeFs::new(root) mounted
Mount ==
    /\ pc = "built"
    /\ srv = "down"
    /\ ~disk.made
    /\ srv' = "serving"
    /\ UNCHANGED <<cfg, pc, rng, stack, root, log, builds, first_root, req, reply,
                   trav, disk>>

Lookup ==
    /\ Idle /\ ~trav.active
    /\ \E parent \in ReqInos, name \in LookupNames :
          Answer([NoReq EXCEPT !.op = "lookup", !.ino = parent, !.name = name],
                 LookupReply(root, parent, name))
    /\ UNCHANGED trav

Getattr ==
    /\ Idle /\ ~trav.active
    /\ \E ino \in ReqInos :
          Answer([NoReq EXCEPT !.op = "getattr", !.ino = ino], GetattrReply(root, ino))
    /\ UNCHANGED trav

Open ==
    /\ Idle /\ ~trav.active
    /\ \E ino \in ReqInos :
          Answer([NoReq EXCEPT !.op = "open", !.ino = ino], OpenReply(root, ino))
    /\ UNCHANGED trav

Opendir ==
    /\ Idle /\ ~trav.active
    /\ \E ino \in ReqInos :
          Answer([NoReq EXCEPT !.op = "opendir", !.ino = ino], OpendirReply(root, ino))
    /\ UNCHANGED trav

Read ==
    /\ Idle /\ ~trav.active
    /\ \E ino \in ReqInos, offset \in ReadOffsets, size \in 0 .. MaxReadSize :
          Answer([NoReq EXCEPT !.op = "read", !.ino = ino, !.offset = offset,
                               !.size = size],
                 ReadReply(root, ino, offset, size))
    /\ UNCHANGED trav

Readdir ==
    /\ Idle /\ ~trav.active
    /\ \E ino \in ReqInos, offset \in 0 .. MaxOffset, cap \in 1 .. MaxCap :
          Answer([NoReq EXCEPT !.op = "readdir", !.ino = ino, !.offset = offset,
                               !.cap = cap],
                 ReaddirReply(root, ino, offset, cap))
    /\ UNCHANGED trav

\* a client starts listing a directory: read_directory with cookie 0
TravStart ==
    /\ Idle /\ ~trav.active
    /\ \E ino \in ReqInos, cap \in 1 .. MaxCap :
          /\ DirGetEntry(root, ino).ok
          /\ DirGetEntry(root, ino).is_dir
          /\ LET rep == ReaddirReply(root, ino, 0, cap)
             IN  /\ Answer([NoReq EXCEPT !.op = "readdir", !.ino = ino, !.cap = cap],
                           rep)
                 /\ trav' = [active |-> TRUE, ino |-> ino, cap |-> cap, calls |-> 1,
                             emitted |-> rep.entries, done |-> rep.entries = <<>>]

\* the client calls again with the cookie of the last entry it received
TravNext ==
    /\ Idle /\ trav.active /\ ~trav.done
    /\ trav.calls < MaxCalls
    /\ LET cookie == trav.emitted[Len(trav.emitted)].offset
           rep == ReaddirReply(root, trav.ino, cookie, trav.cap)
       IN  /\ Answer([NoReq EXCEPT !.op = "readdir", !.ino = trav.ino,
                                   !.offset = cookie, !.cap = trav.cap], rep)
           /\ trav' = [trav EXCEPT !.calls = @ + 1,
                                   !.emitted = @ \o rep.entries,
                                   !.done = rep.entries = <<>>]

\* the session loop takes the next request; a listing that ended is dropped
SessionLoop ==
    /\ srv = "serving"
    /\ req # NoReq
    /\ req' = NoReq
    /\ reply' = NoReply
    /\ trav' = IF trav.active /\ (trav.done \/ trav.calls >= MaxCalls)
               THEN NoTrav ELSE trav
    /\ UNCHANGED <<cfg, pc, rng, stack, root, log, builds, first_root, srv, disk>>

Serve ==
    \/ Mount \/ Lookup \/ Getattr \/ Open \/ Opendir \/ Read \/ Readdir
    \/ TravStart \/ TravNext \/ SessionLoop

Build == Create \/ NewRoot \/ NbChild \/ DirChild \/ FileChild \/ Return \/ Rebuild

Next == Build \/ Serve \/ Generate

Spec == Init /\ [][Next]_vars

\* the steps of one run of create() and DirEntry::new_root
BuildStep == Create \/ NewRoot \/ NbChild \/ DirChild \/ FileChild \/ Return

\* the build is straight-line sequential code: a started call runs on until
\* it returns or panics
LiveSpec == Init /\ [][Next]_vars /\ WF_vars(BuildStep)

---------------------------------------------------------------------------
(* Properties *)

Built == pc = "built"

InosOf(tree) ==
    LET ds == DirsOf(tree)
        fs == FilesOf(tree)
    IN  [i \in 1 .. Len(ds) |-> ds[i].ino] \o [i \in 1 .. Len(fs) |-> fs[i].ino]

IsFileIno(ino) == LET fs == FilesOf(root) IN \E i \in 1 .. Len(fs) : fs[i].ino = ino

IsDirIno(ino) == LET ds == DirsOf(root) IN \E i \in 1 .. Len(ds) : ds[i].ino = ino

FileOfIno(ino) ==
    LET fs == FilesOf(root) IN fs[CHOOSE i \in 1 .. Len(fs) : fs[i].ino = ino]

DirOfIno(ino) ==
    LET ds == DirsOf(root) IN ds[CHOOSE i \in 1 .. Len(ds) : ds[i].ino = ino]

\* what a listing shows of one entry, its cookie left out
Shown(e) == [ino |-> e.ino, kind |-> e.kind, name |-> e.name]

\* the complete listing of a directory: ".", "..", files, subdirectories
ExpectedListing(d) ==
    <<[ino |-> d.ino, kind |-> "Directory", name |-> <<46>>],
      [ino |-> d.parent_ino, kind |-> "Directory", name |-> <<46, 46>>]>>
    \o [i \in 1 .. Len(d.files) |->
           [ino |-> d.files[i].ino, kind |-> "RegularFile", name |-> d.files[i].name]]
    \o [i \in 1 .. Len(d.dirs) |->
           [ino |-> d.dirs[i].ino, kind |-> "Directory", name |-> d.dirs[i].name]]

EmittedShown == [i \in 1 .. Len(trav.emitted) |-> Shown(trav.emitted[i])]

\* C1: a paginated read_directory traversal from cookie 0, each call resuming
\* with the cookie of the last entry returned, never re-emits or skips an
\* entry (what it has yielded so far is a prefix of ".", "..", files,
\* subdirectories) and, once a call returns no entry, has yielded exactly
\* that listing, for every buffer capacity of at least one entry.
C1_ListingExact ==
    trav.active =>
        LET emitted == EmittedShown
            expected == ExpectedListing(DirOfIno(trav.ino))
        IN  /\ IsPrefix(emitted, expected)
            /\ trav.done => emitted = expected

\* C2: for a file and 0 <= offset < offset+len <= size, read(id, offset, len)
\* is the range [offset, offset+len) of read(id, 0, offset+len).
C2_ReadOffsetConsistent ==
    (/\ req.op = "read"
     /\ IsFileIno(req.ino)
     /\ req.size > 0
     /\ req.offset + req.size <= FileOfIno(req.ino).size)
    => /\ reply.kind = "data"
       /\ reply.data =
            SubSeq(ReadReply(root, req.ino, 0, req.offset + req.size).data,
                   req.offset + 1, req.offset + req.size)

\* C3: every protocol operation called with an identifier that matches no
\* node is answered "no such entry", and the session keeps serving.
C3_UnknownIdNoEntry ==
    (/\ req.op \in {"lookup", "getattr", "open", "opendir", "read", "readdir"}
     /\ ~IsFileIno(req.ino)
     /\ ~IsDirIno(req.ino))
    => /\ reply = ErrorReply("ENOENT")
       /\ srv = "serving"

\* C4: in a built tree all identifiers are pairwise distinct, the root has
\* identifier 1 and parent_ino 1, and every other node's parent_ino is the
\* identifier of the directory that holds it, which resolves to that
\* directory.
C4_InoUniqueParent ==
    Built =>
        /\ root.ino = 1
        /\ root.parent_ino = 1
        /\ LET inos == InosOf(root)
           IN  \A i, j \in 1 .. Len(inos) : i # j => inos[i] # inos[j]
        /\ \A d \in Range(DirsOf(root)) :
                  /\ \A i \in 1 .. Len(d.files) :
                        /\ d.files[i].parent_ino = d.ino
                        /\ DirGetEntry(root, d.files[i].parent_ino) = RefDir(d)
                  /\ \A i \in 1 .. Len(d.dirs) :
                        /\ d.dirs[i].parent_ino = d.ino
                        /\ DirGetEntry(root, d.dirs[i].parent_ino) = RefDir(d)

\* a tree with two sibling subdirectories, the first of which holds a
\* subdirectory and a file, and with files of its own
C4_Witness ==
    /\ Built
    /\ Len(root.dirs) >= 2
    /\ Len(root.files) >= 1
    /\ Len(root.dirs[1].dirs) >= 1
    /\ Len(root.dirs[1].files) >= 1

HasDraw(node, what) ==
    \E i \in 1 .. Len(log) : log[i].node = node /\ log[i].what = what

PosOf(node, what) ==
    CHOOSE i \in 1 .. Len(log) : log[i].node = node /\ log[i].what = what

\* the last of the count draws of directory d
CountsEnd(d) ==
    IF HasDraw(d.ino, "nb_dir") THEN PosOf(d.ino, "nb_dir") ELSE PosOf(d.ino, "depth")

\* the draws of one directory: its counts come first, before any draw for a
\* child, and each file child's draws are four consecutive draws, in the
\* given order, that follow those of the file before it; the stored seed is
\* the value drawn at "seed"
DrawOrder(order) ==
    \A d \in Range(DirsOf(root)) :
        /\ PosOf(d.ino, "depth") = PosOf(d.ino, "nb_files") + 1
        /\ HasDraw(d.ino, "nb_dir") => PosOf(d.ino, "nb_dir") = PosOf(d.ino, "depth") + 1
        /\ \A i \in 1 .. Len(d.dirs) : PosOf(d.dirs[i].ino, "name") > CountsEnd(d)
        /\ \A i \in 1 .. Len(d.files) :
              LET f == d.files[i]
                  p == PosOf(f.ino, "name")
              IN  /\ p > CountsEnd(d)
                  /\ p + 3 <= Len(log)
                  /\ \A k \in 1 .. 4 :
                        /\ log[p + k - 1].node = f.ino
                        /\ log[p + k - 1].what = order[k]
                  /\ f.seed = ContextGet(log[PosOf(f.ino, "seed")].at)
                  /\ i > 1 => p = PosOf(d.files[i - 1].ino, "name") + 4

C7_KindErrors ==
    /\ (req.op = "open" /\ IsFileIno(req.ino)) => reply.kind = "opened"
    /\ (req.op = "read" /\ IsFileIno(req.ino)) => reply.kind = "data"
    /\ (req.op \in {"open", "read"} /\ IsDirIno(req.ino))
          => reply = ErrorReply("EISDIR")
    /\ (req.op = "opendir" /\ IsDirIno(req.ino)) => reply.kind = "opened"
    /\ (req.op = "readdir" /\ IsDirIno(req.ino)) => reply.kind = "dir"
    /\ (req.op \in {"opendir", "readdir"} /\ IsFileIno(req.ino))
          => reply = ErrorReply("ENOTDIR")

\* open_directory on a file, answered
C7_Witness ==
    /\ req.op = "opendir"
    /\ IsFileIno(req.ino)
    /\ reply.kind = "error"
    /\ srv = "serving"

\* C8: read(id, offset, requested_length) on a file of size S, offset >= 0,
\* replies exactly min(requested_length, max(S - offset, 0)) bytes.
C8_ReadLength ==
    (req.op = "read" /\ IsFileIno(req.ino))
    => /\ reply.kind = "data"
       /\ Len(reply.data) =
            Min(req.size, Max(FileOfIno(req.ino).size - req.offset, 0))

\* a read from inside a file that asks for more than is left
C8_Witness ==
    /\ req.op = "read"
    /\ IsFileIno(req.ino)
    /\ req.offset > 0
    /\ req.offset < FileOfIno(req.ino).size
    /\ req.offset + req.size > FileOfIno(req.ino).size
    /\ Len(reply.data) = FileOfIno(req.ino).size - req.offset

ConfigInvalid ==
    \/ RangeIsEmpty(cfg.dir_depth)
    \/ RangeIsEmpty(cfg.nb_dir_child)
    \/ RangeIsEmpty(cfg.nb_file_child)
    \/ RangeIsEmpty(cfg.file_len)

\* C9: a configuration with an invalid range is rejected before generation
\* starts: no draw is made on the engine and no node is constructed.
C9_InvalidRangeRejected ==
    ConfigInvalid =>
        /\ log = <<>>
        /\ root = NoTree
        /\ \A i \in 1 .. Len(stack) : stack[i].files = <<>> /\ stack[i].dirs = <<>>

\* C10: the bytes the materializer writes for a file F are those that
\* read(F.ino, 0, F.size) returns on the served tree.
C10_GenerateEqualsRead ==
    disk.made =>
        \A i \in 1 .. Len(disk.entries) :
            LET e == disk.entries[i]
            IN  ~e.is_dir =>
                   LET served == ReadReply(root, e.ino, 0, FileOfIno(e.ino).size)
                   IN  /\ served.kind = "data"
                       /\ e.data = served.data

\* a written binary file longer than one copy buffer, its length no whole
\* number of words, and a written text file longer than one batch
C10_Witness ==
    /\ disk.made
    /\ \E i \in 1 .. Len(disk.entries) :
          /\ ~disk.entries[i].is_dir
          /\ FileOfIno(disk.entries[i].ino).is_binary
          /\ Len(disk.entries[i].data) > CopyBufSize
          /\ Len(disk.entries[i].data) % WordSize # 0
    /\ \E i \in 1 .. Len(disk.entries) :
          /\ ~disk.entries[i].is_dir
          /\ ~FileOfIno(disk.entries[i].ino).is_binary
          /\ Len(disk.entries[i].data) >= 4

\* the ranges dir_depth 0..1, nb_dir_child 0..1, nb_file_child 2..3,
\* binary_ratio 0.0 and file_len 10..11, built
ScenarioBuilt == cfg \in Scenarios /\ Built

\* the root of the scenario: two files numbered 2 and 3, no subdirectory
ScenarioShape ==
    /\ root.ino = 1
    /\ root.dirs = <<>>
    /\ Len(root.files) = 2
    /\ root.files[1].ino = 2
    /\ root.files[2].ino = 3
    /\ Range(InosOf(root)) = {1, 2, 3}

SubtreeInos(d) == Range(InosOf(d))

\* the number of nodes of the subtree of directory d
SubtreeSize(d) == Len(InosOf(d))

\* the highest identifier of a subtree numbered without gap from d.ino
HighIno(d) == d.ino + SubtreeSize(d) - 1

\* directory d is numbered depth-first: its subtree is the interval from
\* d.ino, its first subdirectory starts right after d, each next one right
\* after the subtree of the one before, and its files follow the last
\* subdirectory's subtree one by one
NumberedDepthFirst(d) ==
    /\ SubtreeInos(d) = d.ino .. HighIno(d)
    /\ \A i \in 1 .. Len(d.dirs) :
          /\ SubtreeInos(d.dirs[i]) = d.dirs[i].ino .. HighIno(d.dirs[i])
          /\ d.dirs[i].ino = IF i = 1 THEN d.ino + 1 ELSE HighIno(d.dirs[i - 1]) + 1
    /\ \A j \in 1 .. Len(d.files) :
          d.files[j].ino =
              (IF d.dirs = <<>> THEN d.ino ELSE HighIno(d.dirs[Len(d.dirs)])) + j

\* what a call of DirEntry::new in progress has constructed so far
FrameAsDir(f) ==
    [name |-> f.name, ino |-> f.ino, parent_ino |-> f.parent_ino,
     files |-> f.files, dirs |-> f.dirs]

\* C12: DirEntry::new(name, starting_ino, parent_ino, context) gives the
\* directory starting_ino and returns the highest identifier it consumed:
\* at every point of a call its current_ino is the highest identifier it
\* has given out and the nodes constructed so far carry exactly the
\* interval starting_ino..current_ino; in every directory constructed each
\* subdirectory's subtree is a contiguous interval numbered before its next
\* sibling starts, and the directory's files follow the last
\* subdirectory's subtree sequentially.
C12_InoIntervals ==
    /\ \A k \in 1 .. Len(stack) :
          LET d == FrameAsDir(stack[k])
          IN  /\ SubtreeInos(d) = stack[k].ino .. stack[k].current_ino
              /\ \A e \in Range(DirsOf(d)) : NumberedDepthFirst(e)
    /\ Built => \A e \in Range(DirsOf(root)) : NumberedDepthFirst(e)

\* a built root whose first subdirectory holds nodes of its own, followed
\* by a second subdirectory and by a file of the root, numbered last
C12_Witness ==
    /\ Built
    /\ Len(root.dirs) >= 2
    /\ SubtreeSize(root.dirs[1]) >= 3
    /\ root.dirs[2].ino = root.dirs[1].ino + SubtreeSize(root.dirs[1])
    /\ Len(root.files) >= 1
    /\ root.files[Len(root.files)].ino = HighIno(root)

\* the number of directory levels below directory d
RECURSIVE Height(_)
Height(d) ==
    IF d.dirs = <<>> THEN 0
    ELSE 1 + Height(d.dirs[CHOOSE i \in 1 .. Len(d.dirs) :
                        \A j \in 1 .. Len(d.dirs) :
                            Height(d.dirs[j]) <= Height(d.dirs[i])])

\* no call of DirEntry::new runs, and no directory lies, more than
\* dir_depth.end - 1 levels below the root, and a context whose dir_depth is
\* 0..1 gets no subdirectory
DepthBounded ==
    /\ Len(stack) <= cfg.dir_depth[2]
    /\ \A k \in 1 .. Len(stack) :
          stack[k].ctx.dir_depth = <<0, 1>> =>
              stack[k].nb_dir = 0 /\ stack[k].dirs = <<>>
    /\ Built => Height(root) <= cfg.dir_depth[2] - 1

\* C13: for every configuration with non-empty ranges the recursive build,
\* once started, terminates with a tree, and no directory lies more than
\* dir_depth.end - 1 levels below the root (a directory whose dir_depth
\* range is 0..1 never receives subdirectories).
C13_BuildTerminates ==
    /\ [](~ConfigInvalid => DepthBounded)
    /\ (~ConfigInvalid /\ pc \in {"created", "building"}) ~> Built

\* a built tree that reaches the deepest level its dir_depth allows
C13_Witness ==
    /\ Built
    /\ ~ConfigInvalid
    /\ cfg.dir_depth[2] = MaxDepth
    /\ Height(root) = cfg.dir_depth[2] - 1

\* C14: from a root context whose dir_depth range is non-empty, every
\* context on which DirEntry::new draws child counts, at any depth reached
\* through descent(), has a non-empty dir_depth range: the depth draw of
\* nb_child never samples an empty range.
C14_DepthRangeNonEmpty ==
    ~RangeIsEmpty(cfg.dir_depth) =>
        \A k \in 1 .. Len(stack) : ~RangeIsEmpty(stack[k].ctx.dir_depth)

\* child counts drawn two levels below the root, on a context whose
\* dir_depth start was saturated at zero by descent()
C14_Witness ==
    /\ ~RangeIsEmpty(cfg.dir_depth)
    /\ cfg.dir_depth[1] = 1
    /\ Len(stack) = 3
    /\ stack[3].ctx.dir_depth = <<0, cfg.dir_depth[2] - 2>>
    /\ stack[3].stage = "children"
    /\ HasDraw(stack[3].ino, "depth")

\* the children of directory d, files then subdirectories, as get_child
\* scans them
ChildrenOf(d) ==
    [i \in 1 .. Len(d.files) |-> [ino |-> d.files[i].ino, name |-> d.files[i].name]]
    \o [i \in 1 .. Len(d.dirs) |-> [ino |-> d.dirs[i].ino, name |-> d.dirs[i].name]]

\* C15: for every directory d of the built tree and every child c of d,
\* lookup(d.ino, c.name) returns the attributes of c itself: the reply to a
\* lookup in d carries the identifier of every child of d that bears the
\* name asked for.
C15_LookupFindsChild ==
    (req.op = "lookup" /\ IsDirIno(req.ino)) =>
        LET cs == ChildrenOf(DirOfIno(req.ino))
        IN  \A i \in 1 .. Len(cs) :
                cs[i].name = req.name => reply.kind = "entry" /\ reply.ino = cs[i].ino

============================================================================
